---- MODULE Spec2Model ----
(***************************************************************************)
(* ShadowRoute (mcrouter/routes/ShadowRoute.h): a route handle that always *)
(* sends the request to normal_ and, for every entry of shadowData_ whose  *)
(* settings select the request's key, also dispatches a copy of the        *)
(* request to that entry's shadow route handle.                            *)
(*                                                                         *)
(* One behaviour is one invocation of route() or of traverse() on a node   *)
(* whose configuration (shadowData_, shadowPolicy_) is fixed in Init.  The *)
(* settings of an entry may be replaced while shouldShadow is running on   *)
(* that entry ("Key range might be updated at runtime"): UpdateSettings.   *)
(***************************************************************************)
EXTENDS Integers, Sequences, FiniteSets, TLC

\* ---------------------------------------------------------------- bounds
MaxShadows == 2      \* entries of shadowData_
MaxHash == 2         \* routing key hashes are 0..MaxHash
MaxKeys == 2         \* length of a keysToShadow list

\* ------------------------------------------------------------ value sets
None == <<>>                         \* empty folly::Optional / nullptr
Some(x) == <<x>>                     \* an engaged Optional / non-null pointer
NullHandle == "nullptr"              \* a null std::shared_ptr<RouteHandleIf>
NullRef(i) == <<"nullptr", i>>       \* the reference *shadowData_[i].first of a null handle
NormalDest == <<"normal", 0>>        \* the route handle behind normal_
ShadowDest(i) == <<"shadow", i>>     \* the route handle behind entry i
kShadow == "kShadow"                 \* RequestClass::kShadow
kFailover == "kFailover"             \* RequestClass::kFailover

Hashes == 0..MaxHash
\* routing keys are byte strings; <<1>> is a proper prefix of <<1, 2>>
Keys == {<<1>>, <<1, 2>>, <<2>>}
HashAndKey == Hashes \X Keys

NormalReplies == {"ok", "error", "timeout"}   \* what normal_->route can reply
ShadowReplies == {"ok", "error", "timeout"}   \* what a shadow route can reply

VARIABLES
    shadowData_,      \* sequence of [first: handle, second: settings pointer]
    shadowPolicy_,    \* [delay: BOOLEAN], the answer of shouldDelayShadow
    settingsStore,    \* content of the ShadowSettings object of each entry
    reqCtx,           \* fiber_local::getSharedCtx() is non-null
    req,              \* the request: [hash, key, form]
    pc,               \* position of the invocation
    idx,              \* position of the loop over shadowData_
    settings,         \* shouldShadow's parameter: the settings instance it reads
    decisions,        \* what each shouldShadow call read and returned
    adjustedNormalReq,
    normalReply,
    normalCalls,      \* requests passed to normal_->route, in order
    normalReplied,    \* replies normal_->route produced, in order
    policyCalls,      \* calls of the policy's operations, in order
    tasks,            \* shadow tasks handed to the dispatcher, in order
    failures,         \* MC_LOG_FAILURE reports, in order
    returned,         \* the reply route() returned
    visited,          \* traverse: visitor invocations, in order
    requestClass,     \* fiber local request class set
    callerClass,      \* the request class set traverse() was invoked with
    savedLocals       \* runWithLocals: the locals to restore on exit

vars == <<shadowData_, shadowPolicy_, settingsStore, reqCtx, req, pc,
          idx, settings, decisions, adjustedNormalReq, normalReply,
          normalCalls, normalReplied, policyCalls, tasks, failures, returned,
          visited, requestClass, callerClass, savedLocals>>

config == <<shadowData_, shadowPolicy_, reqCtx, req>>
\* what the invocation of route() writes, apart from pc and tasks
shouldShadowVars == <<settings, decisions, failures>>
normalVars == <<normalReply, normalCalls, normalReplied, returned>>
policyVars == <<adjustedNormalReq, policyCalls>>
routeLocals == <<idx, shouldShadowVars, normalVars, policyVars>>
\* what the invocation of traverse() writes, apart from pc and idx
traverseLocals == <<visited, requestClass, callerClass, savedLocals>>

NumShadows == Len(shadowData_)

\* ----------------------------------------------------- ordering of keys
\* folly::StringPiece operator<: lexicographic comparison of the bytes
RECURSIVE KeyLess(_, _)
KeyLess(a, b) ==
    IF b = <<>> THEN FALSE
    ELSE IF a = <<>> THEN TRUE
    ELSE IF Head(a) # Head(b) THEN Head(a) < Head(b)
    ELSE KeyLess(Tail(a), Tail(b))

\* variant: only the hashes are compared
TupleLess_HashOnly(a, b) ==
    a[1] < b[1]

\* std::less<std::tuple<uint32_t, folly::StringPiece>>
TupleLess(a, b) ==
    \/ a[1] < b[1]
    \/ a[1] = b[1] /\ KeyLess(a[2], b[2])

\* std::lower_bound over list[first+1 .. first+count] (first is 0-based)
RECURSIVE LowerBound(_, _, _, _)
LowerBound(list, value, first, count) ==
    IF count <= 0 THEN first
    ELSE LET step == count \div 2
             it == first + step
         IN IF TupleLess(list[it + 1], value)
            THEN LowerBound(list, value, it + 1, count - (step + 1))
            ELSE LowerBound(list, value, first, step)

\* std::binary_search(begin, end, value, less)
BinarySearch(list, value) ==
    LET first == LowerBound(list, value, 0, Len(list))
    IN first # Len(list) /\ ~TupleLess(value, list[first + 1])

\* variant: the upper end of the key range is excluded
ShouldShadowRead_OpenRange(r, keys, range) ==
    IF keys # <<>>
    THEN BinarySearch(keys, <<r.hash, r.key>>)
    ELSE range[1] <= r.hash /\ r.hash < range[2]

\* shouldShadow, lines 138-153, on the key list and the key range it read
ShouldShadowRead(r, keys, range) ==
    IF keys # <<>>
    THEN BinarySearch(keys, <<r.hash, r.key>>)
    ELSE range[1] <= r.hash /\ r.hash <= range[2]

\* --------------------------------------------------------------- policy
MakeAdjustedNormalRequest(r) == [r EXCEPT !.form = "adjusted"]
MakeShadowRequest(r) == [r EXCEPT !.form = "shadow"]
MakePostShadowReplyFn(reply) == [normalReply |-> reply]

\* ------------------------------------------------------- configurations
IsSorted(list) ==
    \A i \in 1..(Len(list) - 1) : TupleLess(list[i], list[i + 1])

SortedLists(n) ==
    {l \in UNION {[1..m -> HashAndKey] : m \in 0..n} : IsSorted(l)}

Ranges == Hashes \X Hashes

\* settings contents within the bounds: every key range with an empty list,
\* and every sorted list with a range of every hash, of no hash, of hash 0
AllSettings ==
    [keysToShadow : {<<>>}, keyRange : Ranges]
    \cup [keysToShadow : SortedLists(MaxKeys) \ {<<>>},
          keyRange : {<<0, MaxHash>>, <<1, 0>>, <<0, 0>>}]

\* a few settings contents: shadow every hash, shadow no hash, shadow one key
SomeSettings ==
    { [keysToShadow |-> <<>>, keyRange |-> <<0, MaxHash>>],
      [keysToShadow |-> <<>>, keyRange |-> <<1, 0>>],
      [keysToShadow |-> << <<1, <<1, 2>> >> >>, keyRange |-> <<0, 0>>] }

\* first: the shadow route handle; second: the ShadowSettings pointer
Entries == [first : {NullHandle, "handle"}, second : {"nullptr", "settings"}]

\* content slot of an entry that has no ShadowSettings object
NoSettings == [keysToShadow |-> <<>>, keyRange |-> <<0, 0>>]

StoresFor(data, contents) ==
    {st \in [1..Len(data) -> contents \cup {NoSettings}] :
        \A i \in 1..Len(data) :
            IF data[i].second = "nullptr" THEN st[i] = NoSettings
            ELSE st[i] \in contents}

Requests == [hash : Hashes, key : Keys, form : {"original"}]

\* requests that the settings of SomeSettings tell apart: the first is in the
\* key list, the second only in the range of every hash
SomeRequests ==
    { [hash |-> 1, key |-> <<1, 2>>, form |-> "original"],
      [hash |-> 1, key |-> <<1>>, form |-> "original"] }

InitLocals ==
    /\ pc = "idle"
    /\ idx = 1
    /\ settings = NoSettings
    /\ decisions = <<>>
    /\ adjustedNormalReq = None
    /\ normalReply = None
    /\ normalCalls = <<>>
    /\ normalReplied = <<>>
    /\ policyCalls = <<>>
    /\ tasks = <<>>
    /\ failures = <<>>
    /\ returned = None
    /\ visited = <<>>
    /\ requestClass = {}
    /\ callerClass = {}
    /\ savedLocals = None

\* a node with up to MaxShadows entries
Init ==
    /\ shadowData_ \in UNION {[1..n -> Entries] : n \in 0..MaxShadows}
    /\ settingsStore \in StoresFor(shadowData_, SomeSettings)
    /\ shadowPolicy_ \in [delay : BOOLEAN]
    /\ reqCtx \in BOOLEAN
    /\ req \in SomeRequests
    /\ InitLocals

\* a node with one entry, whose settings range over all settings contents
InitOneEntry ==
    /\ shadowData_ \in [1..1 -> Entries]
    /\ settingsStore \in StoresFor(shadowData_, AllSettings)
    /\ shadowPolicy_ \in [delay : BOOLEAN]
    /\ reqCtx \in BOOLEAN
    /\ req \in Requests
    /\ InitLocals

\* MC_LOG_FAILURE guarded by "if (auto& reqCtx = getSharedCtx())"
LogFailure(what, i) ==
    IF reqCtx THEN Append(failures, [what |-> what, entry |-> i]) ELSE failures


PolicyCall(op, r, reply) == [op |-> op, req |-> r, reply |-> reply]

\* ------------------------------------------------------------- route()
\* route() is invoked: lines 84-86
StartRoute ==
    /\ pc = "idle"
    /\ pc' = "loop"
    /\ idx' = 1
    /\ UNCHANGED <<config, settingsStore, shouldShadowVars, normalVars,
                   policyVars, tasks, traverseLocals>>

\* variant: absent settings select every request
ShouldShadowNullSettings_ReturnsTrue ==
    /\ pc = "loop"
    /\ idx <= NumShadows
    /\ shadowData_[idx].second = "nullptr"
    /\ failures' = LogFailure("ShadowSettings is nullptr", idx)
    /\ decisions' = Append(decisions,
           [entry |-> idx, settings |-> FALSE, keys |-> <<>>,
            range |-> <<0, 0>>, before |-> NoSettings, after |-> NoSettings,
            result |-> TRUE])
    /\ pc' = "eligible"
    /\ UNCHANGED <<config, settingsStore, idx, settings, normalVars,
                   policyVars, tasks, traverseLocals>>

\* shouldShadow with settings == nullptr: lines 129-137, then the next entry
ShouldShadowNullSettings ==
    /\ pc = "loop"
    /\ idx <= NumShadows
    /\ shadowData_[idx].second = "nullptr"
    /\ failures' = LogFailure("ShadowSettings is nullptr", idx)
    /\ decisions' = Append(decisions,
           [entry |-> idx, settings |-> FALSE, keys |-> <<>>,
            range |-> <<0, 0>>, before |-> NoSettings, after |-> NoSettings,
            result |-> FALSE])
    /\ idx' = idx + 1
    /\ UNCHANGED <<config, settingsStore, pc, settings, normalVars,
                   policyVars, tasks, traverseLocals>>

\* shouldShadow is called with iter.second.get(), a non-null pointer to the
\* current settings instance of the entry: lines 87 and 128-129
ShouldShadowReadKeys ==
    /\ pc = "loop"
    /\ idx <= NumShadows
    /\ shadowData_[idx].second # "nullptr"
    /\ settings' = settingsStore[idx]
    /\ pc' = "shouldShadow"
    /\ UNCHANGED <<config, settingsStore, idx, decisions, failures,
                   normalVars, policyVars, tasks, traverseLocals>>

\* what a shouldShadow call read (keys, range) and returned, the settings
\* instance of the entry when the call began and the one when it returned
Decision(i, keys, range, result) ==
    [entry |-> i, settings |-> TRUE, keys |-> keys, range |-> range,
     before |-> settings, after |-> settingsStore[i], result |-> result]

\* variant: the key range is read from the entry's current settings instance
ShouldShadowDecide_RereadsRange ==
    /\ pc = "shouldShadow"
    /\ LET keys == settings.keysToShadow
           range == settingsStore[idx].keyRange
           result == ShouldShadowRead(req, keys, range)
       IN /\ decisions' = Append(decisions, Decision(idx, keys, range, result))
          /\ IF result
             THEN pc' = "eligible" /\ idx' = idx
             ELSE pc' = "loop" /\ idx' = idx + 1
    /\ settings' = NoSettings
    /\ UNCHANGED <<config, settingsStore, failures, normalVars, policyVars,
                   tasks, traverseLocals>>

\* shouldShadow decides: lines 138-153, settings->keysToShadow() (line 140)
\* and settings->keyRange() (line 151) are read through the same pointer
ShouldShadowDecide ==
    /\ pc = "shouldShadow"
    /\ LET keys == settings.keysToShadow
           range == settings.keyRange
           result == ShouldShadowRead(req, keys, range)
       IN /\ decisions' = Append(decisions, Decision(idx, keys, range, result))
          /\ IF result
             THEN pc' = "eligible" /\ idx' = idx
             ELSE pc' = "loop" /\ idx' = idx + 1
    /\ settings' = NoSettings
    /\ UNCHANGED <<config, settingsStore, failures, normalVars, policyVars,
                   tasks, traverseLocals>>

\* variant: the null route handle is skipped without a report
SkipNullShadow_Silent ==
    /\ pc = "eligible"
    /\ shadowData_[idx].first = NullHandle
    /\ pc' = "loop"
    /\ idx' = idx + 1
    /\ UNCHANGED <<config, settingsStore, shouldShadowVars, normalVars,
                   policyVars, tasks, traverseLocals>>

\* the entry is eligible and its route handle is null: lines 88-97
SkipNullShadow ==
    /\ pc = "eligible"
    /\ shadowData_[idx].first = NullHandle
    /\ failures' = LogFailure("nullptr route handle", idx)
    /\ pc' = "loop"
    /\ idx' = idx + 1
    /\ UNCHANGED <<config, settingsStore, settings, decisions,
                   normalVars, policyVars, tasks, traverseLocals>>

\* variant: the test "!normalReply" is left out
DelayShadow_EveryEntry ==
    shadowPolicy_.delay

\* variant: the test "!normalReply" is inverted
DelayShadow_Inverted ==
    normalReply # None /\ shadowPolicy_.delay

\* line 104-105: the normal route has to be called before this shadow
DelayShadow ==
    normalReply = None /\ shadowPolicy_.delay

\* variant: the request is adjusted again for every shadow
AdjustAndMaybeDelay_AdjustsEveryTime ==
    /\ pc = "eligible"
    /\ shadowData_[idx].first # NullHandle
    /\ LET adjusted == Some(MakeAdjustedNormalRequest(req))
       IN /\ adjustedNormalReq' = adjusted
          /\ policyCalls' = Append(policyCalls,
                                PolicyCall("makeAdjustedNormalRequest",
                                           Some(req), None))
          /\ IF DelayShadow
             THEN /\ normalCalls' = Append(normalCalls, adjusted[1])
                  /\ pc' = "awaitNormalEarly"
             ELSE /\ normalCalls' = normalCalls
                  /\ pc' = "dispatch"
    /\ UNCHANGED <<config, settingsStore, idx, shouldShadowVars, normalReply,
                   normalReplied, returned, tasks, traverseLocals>>

\* the request is adjusted once (lines 99-102); under a delaying policy the
\* normal route is called before the first shadow (lines 104-107)
AdjustAndMaybeDelay ==
    /\ pc = "eligible"
    /\ shadowData_[idx].first # NullHandle
    /\ LET adjusted == IF adjustedNormalReq = None
                       THEN Some(MakeAdjustedNormalRequest(req))
                       ELSE adjustedNormalReq
           calls == IF adjustedNormalReq = None
                    THEN Append(policyCalls,
                             PolicyCall("makeAdjustedNormalRequest",
                                        Some(req), None))
                    ELSE policyCalls
       IN /\ adjustedNormalReq' = adjusted
          /\ policyCalls' = calls
          /\ IF DelayShadow
             THEN /\ normalCalls' = Append(normalCalls, adjusted[1])
                  /\ pc' = "awaitNormalEarly"
             ELSE /\ normalCalls' = normalCalls
                  /\ pc' = "dispatch"
    /\ UNCHANGED <<config, settingsStore, idx, shouldShadowVars, normalReply,
                   normalReplied, returned, tasks, traverseLocals>>

\* normal_->route replies to the call of line 106
NormalRepliesEarly ==
    /\ pc = "awaitNormalEarly"
    /\ \E reply \in NormalReplies :
          /\ normalReply' = Some(reply)
          /\ normalReplied' = Append(normalReplied, reply)
    /\ pc' = "dispatch"
    /\ UNCHANGED <<config, settingsStore, idx, shouldShadowVars, normalCalls,
                   returned, policyVars, tasks, traverseLocals>>

\* a new fiber task: calls shadow->route(*adjustedReq), then postShadowReplyFn
NewTask(i, shadowReq, postShadowReplyFn) ==
    [entry |-> i, req |-> shadowReq, postShadowReplyFn |-> postShadowReplyFn,
     state |-> "spawned", reply |-> None, observed |-> <<>>]

\* dispatchShadowRequest hands the task to the dispatcher and returns
DispatchShadowRequest(i, shadowReq, postShadowReplyFn) ==
    Append(tasks, NewTask(i, shadowReq, postShadowReplyFn))

\* variant: the loop ends after the first dispatch
Dispatch_Break ==
    /\ pc = "dispatch"
    /\ LET fn == IF normalReply # None
                 THEN Some(MakePostShadowReplyFn(normalReply[1]))
                 ELSE None
           calls1 == Append(policyCalls,
                         PolicyCall("makeShadowRequest",
                                    adjustedNormalReq, None))
       IN /\ policyCalls' =
                IF normalReply # None
                THEN Append(calls1, PolicyCall("makePostShadowReplyFn",
                                               None, normalReply))
                ELSE calls1
          /\ tasks' = DispatchShadowRequest(
                          idx, MakeShadowRequest(adjustedNormalReq[1]), fn)
    /\ pc' = "loop"
    /\ idx' = NumShadows + 1
    /\ UNCHANGED <<config, settingsStore, shouldShadowVars, normalVars,
                   adjustedNormalReq, traverseLocals>>

\* variant: the task is never given a postShadowReplyFn
Dispatch_NoObserver ==
    /\ pc = "dispatch"
    /\ policyCalls' = Append(policyCalls,
                          PolicyCall("makeShadowRequest",
                                     adjustedNormalReq, None))
    /\ tasks' = DispatchShadowRequest(
                    idx, MakeShadowRequest(adjustedNormalReq[1]), None)
    /\ pc' = "loop"
    /\ idx' = idx + 1
    /\ UNCHANGED <<config, settingsStore, shouldShadowVars, normalVars,
                   adjustedNormalReq, traverseLocals>>

\* lines 109-113, then the next entry
Dispatch ==
    /\ pc = "dispatch"
    /\ LET shadowReq == MakeShadowRequest(adjustedNormalReq[1])
           fn == IF normalReply # None
                 THEN Some(MakePostShadowReplyFn(normalReply[1]))
                 ELSE None
           calls1 == Append(policyCalls,
                         PolicyCall("makeShadowRequest",
                                    adjustedNormalReq, None))
           calls2 == IF normalReply # None
                     THEN Append(calls1,
                              PolicyCall("makePostShadowReplyFn",
                                         None, normalReply))
                     ELSE calls1
       IN /\ policyCalls' = calls2
          /\ tasks' = DispatchShadowRequest(idx, shadowReq, fn)
    /\ pc' = "loop"
    /\ idx' = idx + 1
    /\ UNCHANGED <<config, settingsStore, shouldShadowVars, normalVars,
                   adjustedNormalReq, traverseLocals>>

\* variant: the stored reply is dropped and normal_ is routed to again
ReturnNormalReply_RouteAgain ==
    /\ pc = "loop"
    /\ idx > NumShadows
    /\ normalReply # None
    /\ normalCalls' = Append(normalCalls, adjustedNormalReq[1])
    /\ pc' = "awaitNormal"
    /\ UNCHANGED <<config, settingsStore, idx, shouldShadowVars, normalReply,
                   normalReplied, returned, policyVars, tasks, traverseLocals>>

\* variant: a failed reply of normal_ is returned as a success
ReturnNormalReply_MasksError ==
    /\ pc = "loop"
    /\ idx > NumShadows
    /\ normalReply # None
    /\ returned' = Some("ok")
    /\ pc' = "done"
    /\ UNCHANGED <<config, settingsStore, idx, shouldShadowVars, normalReply,
                   normalCalls, normalReplied, policyVars, tasks,
                   traverseLocals>>

\* the loop is over and the normal reply exists: lines 117-118
ReturnNormalReply ==
    /\ pc = "loop"
    /\ idx > NumShadows
    /\ normalReply # None
    /\ returned' = normalReply
    /\ pc' = "done"
    /\ UNCHANGED <<config, settingsStore, idx, shouldShadowVars, normalReply,
                   normalCalls, normalReplied, policyVars, tasks,
                   traverseLocals>>

\* variant: the shadow tasks are joined before normal_ is called
CallNormal_AfterShadows ==
    /\ pc = "loop"
    /\ idx > NumShadows
    /\ normalReply = None
    /\ \A t \in 1..Len(tasks) : tasks[t].state = "done"
    /\ normalCalls' = Append(normalCalls,
           IF adjustedNormalReq # None THEN adjustedNormalReq[1] ELSE req)
    /\ pc' = "awaitNormal"
    /\ UNCHANGED <<config, settingsStore, idx, shouldShadowVars, normalReply,
                   normalReplied, returned, policyVars, tasks, traverseLocals>>

\* variant: the request is adjusted although no shadow was dispatched
CallNormal_AdjustsAlways ==
    /\ pc = "loop"
    /\ idx > NumShadows
    /\ normalReply = None
    /\ normalCalls' = Append(normalCalls, MakeAdjustedNormalRequest(req))
    /\ pc' = "awaitNormal"
    /\ UNCHANGED <<config, settingsStore, idx, shouldShadowVars, normalReply,
                   normalReplied, returned, policyVars, tasks, traverseLocals>>

\* the loop is over and normal_ was not called yet: line 119
CallNormal ==
    /\ pc = "loop"
    /\ idx > NumShadows
    /\ normalReply = None
    /\ normalCalls' = Append(normalCalls,
           IF adjustedNormalReq # None THEN adjustedNormalReq[1] ELSE req)
    /\ pc' = "awaitNormal"
    /\ UNCHANGED <<config, settingsStore, idx, shouldShadowVars, normalReply,
                   normalReplied, returned, policyVars, tasks, traverseLocals>>

\* variant: the reply of a finished shadow that is not "ok" is returned
NormalRepliesLast_ShadowError ==
    /\ pc = "awaitNormal"
    /\ \E reply \in NormalReplies :
          /\ returned' =
                IF \E t \in 1..Len(tasks) :
                       tasks[t].state = "done" /\ tasks[t].reply # Some("ok")
                THEN Some("error") ELSE Some(reply)
          /\ normalReplied' = Append(normalReplied, reply)
    /\ pc' = "done"
    /\ UNCHANGED <<config, settingsStore, idx, shouldShadowVars, normalReply,
                   normalCalls, policyVars, tasks, traverseLocals>>

\* variant: a failed reply of normal_ cancels the shadow tasks still running
NormalRepliesLast_CancelsShadows ==
    /\ pc = "awaitNormal"
    /\ \E reply \in NormalReplies :
          /\ returned' = Some(reply)
          /\ normalReplied' = Append(normalReplied, reply)
          /\ tasks' = [t \in 1..Len(tasks) |->
                          IF reply # "ok" /\ tasks[t].state # "done"
                          THEN [tasks[t] EXCEPT !.state = "cancelled"]
                          ELSE tasks[t]]
    /\ pc' = "done"
    /\ UNCHANGED <<config, settingsStore, idx, shouldShadowVars, normalReply,
                   normalCalls, policyVars, traverseLocals>>

\* normal_->route replies to the call of line 119 and route returns its reply
NormalRepliesLast ==
    /\ pc = "awaitNormal"
    /\ \E reply \in NormalReplies :
          /\ returned' = Some(reply)
          /\ normalReplied' = Append(normalReplied, reply)
    /\ pc' = "done"
    /\ UNCHANGED <<config, settingsStore, idx, shouldShadowVars, normalReply,
                   normalCalls, policyVars, tasks, traverseLocals>>

\* ------------------------------------------------------- shadow tasks
\* the dispatcher runs a task: it calls shadow->route(*adjustedReq)
TaskCallsShadow ==
    \E t \in 1..Len(tasks) :
        /\ tasks[t].state = "spawned"
        /\ tasks' = [tasks EXCEPT ![t].state = "waiting"]
        /\ UNCHANGED <<config, settingsStore, pc, routeLocals,
                       traverseLocals>>

\* the shadow route replies; the task passes the reply to postShadowReplyFn
TaskShadowReplies ==
    \E t \in 1..Len(tasks), reply \in ShadowReplies :
        /\ tasks[t].state = "waiting"
        /\ tasks' = [tasks EXCEPT
               ![t].state = "done",
               ![t].reply = Some(reply),
               ![t].observed = IF tasks[t].postShadowReplyFn # None
                               THEN <<reply>> ELSE <<>>]
        /\ UNCHANGED <<config, settingsStore, pc, routeLocals,
                       traverseLocals>>

\* ---------------------------------------------------- runtime settings
\* The configuration replaces the settings instance of an entry while a
\* shouldShadow call on that entry is running.  An instance is never changed
\* in place: the call keeps reading the instance it was given.  A replacement
\* before the call is an initial state with that content, and one after the
\* call is never read by this invocation.
UpdateSettings ==
    \E s \in SomeSettings :
        /\ pc = "shouldShadow"
        /\ s # settingsStore[idx]
        /\ settingsStore' = [settingsStore EXCEPT ![idx] = s]
        /\ UNCHANGED <<config, pc, routeLocals, tasks, traverseLocals>>

\* ----------------------------------------------------------- traverse()
\* one invocation of the traverser t on a route handle
Visit(dest) == [dest |-> dest, shadow |-> kShadow \in requestClass]

\* the request class sets of the fibers that invoke traverse()
CallerClasses == SUBSET {kShadow, kFailover}

\* fiber_local::addRequestClass on the locals of the running fiber
AddRequestClass(class) == requestClass \cup {class}

\* traverse() is invoked in a fiber with some request class set: line 70
StartTraverse ==
    /\ pc = "idle"
    /\ \E c \in CallerClasses : requestClass' = c /\ callerClass' = c
    /\ pc' = "traverse"
    /\ UNCHANGED <<config, settingsStore, routeLocals, tasks, visited,
                   savedLocals>>

\* variant: normal_ is visited inside the lambda, after addRequestClass
TraverseNormal_Tagged ==
    /\ pc = "traverse"
    /\ visited' = Append(visited, [dest |-> NormalDest, shadow |-> TRUE])
    /\ pc' = "runWithLocals"
    /\ UNCHANGED <<config, settingsStore, routeLocals, tasks, requestClass,
                   callerClass, savedLocals>>

\* traverse() visits normal_: line 73
TraverseNormal ==
    /\ pc = "traverse"
    /\ visited' = Append(visited, Visit(NormalDest))
    /\ pc' = "runWithLocals"
    /\ UNCHANGED <<config, settingsStore, routeLocals, tasks, requestClass,
                   callerClass, savedLocals>>

\* runWithLocals saves the fiber locals; addRequestClass(kShadow): 74-75
TraverseEnterLocals ==
    /\ pc = "runWithLocals"
    /\ savedLocals' = Some(requestClass)
    /\ requestClass' = AddRequestClass(kShadow)
    /\ idx' = 1
    /\ pc' = "traverseLoop"
    /\ UNCHANGED <<config, settingsStore, shouldShadowVars, normalVars,
                   policyVars, tasks, visited, callerClass>>

\* t(*shadowData.first, req) on a non-null handle: lines 76-78
TraverseShadow ==
    /\ pc = "traverseLoop"
    /\ idx <= NumShadows
    /\ shadowData_[idx].first # NullHandle
    /\ visited' = Append(visited, Visit(ShadowDest(idx)))
    /\ idx' = idx + 1
    /\ UNCHANGED <<config, settingsStore, pc, shouldShadowVars, normalVars,
                   policyVars, tasks, requestClass, callerClass, savedLocals>>

\* t(*shadowData.first, req) on a null handle, line 77: undefined behaviour.
\* The process crashes, or the traverser runs on the invalid reference.
TraverseNullShadow ==
    /\ pc = "traverseLoop"
    /\ idx <= NumShadows
    /\ shadowData_[idx].first = NullHandle
    /\ \/ /\ pc' = "crashed"
          /\ UNCHANGED <<visited, idx>>
       \/ /\ visited' = Append(visited, Visit(NullRef(idx)))
          /\ idx' = idx + 1
          /\ pc' = pc
    /\ UNCHANGED <<config, settingsStore, shouldShadowVars, normalVars,
                   policyVars, tasks, requestClass, callerClass, savedLocals>>

\* the lambda returns and runWithLocals restores the locals: line 79
TraverseExitLocals ==
    /\ pc = "traverseLoop"
    /\ idx > NumShadows
    /\ requestClass' = savedLocals[1]
    /\ savedLocals' = None
    /\ pc' = "traverseDone"
    /\ UNCHANGED <<config, settingsStore, routeLocals, tasks, visited,
                   callerClass>>

\* ------------------------------------------------------ specifications
\* the steps of the fiber that runs route(), and the replies of normal_
RouteStep ==
    \/ StartRoute
    \/ ShouldShadowNullSettings
    \/ ShouldShadowReadKeys
    \/ ShouldShadowDecide
    \/ SkipNullShadow
    \/ AdjustAndMaybeDelay
    \/ NormalRepliesEarly
    \/ Dispatch
    \/ ReturnNormalReply
    \/ CallNormal
    \/ NormalRepliesLast

Next ==
    \/ StartRoute
    \/ ShouldShadowNullSettings
    \/ ShouldShadowReadKeys
    \/ ShouldShadowDecide
    \/ SkipNullShadow
    \/ AdjustAndMaybeDelay
    \/ NormalRepliesEarly
    \/ Dispatch
    \/ ReturnNormalReply
    \/ CallNormal
    \/ NormalRepliesLast
    \/ TaskCallsShadow
    \/ TaskShadowReplies
    \/ StartTraverse
    \/ TraverseNormal
    \/ TraverseEnterLocals
    \/ TraverseShadow
    \/ TraverseNullShadow
    \/ TraverseExitLocals

\* the settings instances are also replaced while shouldShadow is running
NextWithUpdates ==
    \/ Next
    \/ UpdateSettings

\* a node with up to MaxShadows entries; no settings instance is replaced
\* during the invocation
Spec == Init /\ [][Next]_vars

\* a node with one entry and any settings content, replaced at any time while
\* shouldShadow is running
SpecOneEntry == InitOneEntry /\ [][NextWithUpdates]_vars

\* The fiber that runs route() is scheduled and normal_ replies.  Nothing is
\* assumed of the shadow tasks: a shadow route may never be called or reply.
FairSpec == Spec /\ WF_vars(RouteStep)

\* the dispatcher runs every task it was handed, and every call to a shadow
\* route ends with a reply, an error or that call's own timeout
FairTaskSpec == Spec /\ WF_vars(TaskCallsShadow) /\ WF_vars(TaskShadowReplies)

\* ---------------------------------------------------------- properties
RouteDone == pc = "done"
Range(seq) == {seq[i] : i \in 1..Len(seq)}
TasksOf(i) == {t \in 1..Len(tasks) : tasks[t].entry = i}
PolicyCallsOf(op) == {c \in 1..Len(policyCalls) : policyCalls[c].op = op}

\* C1: normal_->route is called at most once during an invocation of route
\* and exactly once by the time route returns, whatever the entries, their
\* eligibility, their handles and the policy are.
C1_NormalRoutedExactlyOnce ==
    /\ Len(normalCalls) <= 1
    /\ RouteDone => Len(normalCalls) = 1

\* route returned under a delaying policy after dispatching two shadows
C1_Witness ==
    /\ RouteDone
    /\ shadowPolicy_.delay
    /\ Len(tasks) = 2
    /\ Len(normalCalls) = 1

\* C2: under a policy that does not delay, a running route returns the reply
\* of normal_ although no shadow task is ever required to make a step.
C2_ReturnsWithoutWaitingForShadows ==
    (pc = "loop" /\ ~shadowPolicy_.delay)
        ~> (RouteDone /\ returned = Some(normalReplied[1]))

\* route returned while a shadow route was called and has not replied
C2_Witness ==
    /\ RouteDone
    /\ ~shadowPolicy_.delay
    /\ \E t \in 1..Len(tasks) : tasks[t].state = "waiting"

\* C3: under a delaying policy the normal reply exists whenever a shadow
\* request was built, a post-reply function was made or called, or a shadow
\* task was dispatched.
C3_NormalReplyBeforeShadows ==
    ( /\ shadowPolicy_.delay
      /\ \/ tasks # <<>>
         \/ PolicyCallsOf("makeShadowRequest") # {}
         \/ PolicyCallsOf("makePostShadowReplyFn") # {}
         \/ pc = "dispatch"
         \/ \E t \in 1..Len(tasks) : tasks[t].observed # <<>> )
    => (normalReply # None /\ Len(normalReplied) = 1)

\* under a delaying policy a post-reply function was called with a shadow reply
C3_Witness ==
    /\ shadowPolicy_.delay
    /\ \E t \in 1..Len(tasks) : tasks[t].observed # <<>>

C5_ReplyIndependentOfShadows ==
    RouteDone =>
        /\ Len(normalReplied) = 1
        /\ returned = Some(normalReplied[1])

\* route returned "ok" although one shadow failed and another never replied
C5_Witness ==
    /\ RouteDone
    /\ returned = Some("ok")
    /\ \E t, u \in 1..Len(tasks) :
          /\ tasks[t].reply \in {Some("error"), Some("timeout")}
          /\ tasks[u].state # "done"


Reports(what, i) ==
    {f \in 1..Len(failures) : failures[f] = [what |-> what, entry |-> i]}

\* every entry was examined once, in the order of shadowData_
ExaminedInOrder ==
    /\ Len(decisions) = NumShadows
    /\ \A i \in 1..NumShadows : decisions[i].entry = i

C7_With(reports) ==
    RouteDone =>
        /\ ExaminedInOrder
        /\ Len(normalCalls) = 1
        /\ returned = Some(normalReplied[1])
        /\ \A i \in 1..NumShadows :
              /\ shadowData_[i].second = "nullptr" =>
                    /\ Cardinality(Reports("ShadowSettings is nullptr", i))
                         = reports
                    /\ ~decisions[i].result
                    /\ TasksOf(i) = {}
              /\ (decisions[i].result /\ shadowData_[i].first # NullHandle)
                    => Cardinality(TasksOf(i)) = 1

\* C7 as stated: an entry whose settings are absent gets one "ShadowSettings
\* is nullptr" report and is skipped; the other entries are examined in order
\* and the normal route is called once and its reply returned.
C7_Original ==
    C7_With(1)

\* C7, amended: as stated, but the report is made only if the shared request
\* context exists; without it the entry is skipped with no report.
C7_NullSettingsSkipped ==
    C7_With(IF reqCtx THEN 1 ELSE 0)

\* the first entry has no settings and was reported, the second was dispatched
C7_Witness ==
    /\ RouteDone
    /\ NumShadows = 2
    /\ shadowData_[1].second = "nullptr"
    /\ Cardinality(Reports("ShadowSettings is nullptr", 1)) = 1
    /\ Cardinality(TasksOf(2)) = 1

\* C8: a shouldShadow call that read an empty key list returned TRUE exactly
\* if the hash of the request lies in the closed key range it read.
C8_KeyRangeInclusive ==
    \A d \in Range(decisions) :
        (d.settings /\ d.keys = <<>>) =>
            (d.result <=> req.hash \in d.range[1]..d.range[2])

\* shouldShadow selected a request whose hash is the upper end of the range
C8_Witness ==
    \E d \in Range(decisions) :
        /\ d.settings
        /\ d.keys = <<>>
        /\ d.range[1] < d.range[2]
        /\ req.hash = d.range[2]
        /\ d.result

\* C9: a shouldShadow call that read a non-empty sorted key list returned
\* TRUE exactly if (hash, key) of the request is in the list, whatever the
\* key range is.
C9_KeyListDecides ==
    \A d \in Range(decisions) :
        (d.settings /\ d.keys # <<>>) =>
            (d.result <=> <<req.hash, req.key>> \in Range(d.keys))

\* the request is not selected: its hash is in the key range and in the
\* list, with another key
C9_Witness ==
    \E d \in Range(decisions) :
        /\ d.settings
        /\ Len(d.keys) = 2
        /\ \E k \in Range(d.keys) : k[1] = req.hash /\ k[2] # req.key
        /\ req.hash \in d.range[1]..d.range[2]
        /\ ~d.result

\* the route handles traverse is to visit: normal_, then the shadows in order
RECURSIVE ShadowDestsFrom(_)
ShadowDestsFrom(i) ==
    IF i > NumShadows THEN <<>>
    ELSE IF shadowData_[i].first = NullHandle THEN ShadowDestsFrom(i + 1)
    ELSE <<ShadowDest(i)>> \o ShadowDestsFrom(i + 1)

VisitedDests == [v \in 1..Len(visited) |-> visited[v].dest]

\* C10: when traverse has ended, the traverser was called on normal_ and then
\* once on the route handle of every entry, in order, and nothing was routed
\* and no settings were read.
C10_TraverseVisitsAll ==
    pc \in {"traverseDone", "crashed"} =>
        /\ VisitedDests = <<NormalDest>> \o ShadowDestsFrom(1)
        /\ normalCalls = <<>>
        /\ tasks = <<>>
        /\ decisions = <<>>


\* no shouldShadow call of the invocation selected the request
NoneEligible == \A d \in Range(decisions) : ~d.result

\* C11: when route has returned and no entry was eligible (or there is no
\* entry), normal_ was routed the original request, its reply was returned,
\* no operation of the policy was called and nothing was dispatched.
C11_NoShadowIsPassThrough ==
    (RouteDone /\ NoneEligible) =>
        /\ normalCalls = <<req>>
        /\ returned = Some(normalReplied[1])
        /\ policyCalls = <<>>
        /\ adjustedNormalReq = None
        /\ tasks = <<>>

\* route returned on a node whose two entries are both not eligible
C11_Witness ==
    /\ RouteDone
    /\ NumShadows = 2
    /\ Len(decisions) = 2
    /\ NoneEligible
    /\ \E d \in Range(decisions) : d.settings
    /\ normalCalls = <<req>>


\* the call to normal_ ended without a reply of the destination
NormalFailed == returned # None /\ returned # Some("ok")

\* C12: once route has returned a failed outcome of normal_ (error, timeout),
\* every shadow task that was dispatched still calls its shadow route and
\* runs until that call has ended: the outcome of normal_ cancels none.
C12_ShadowTasksOutliveNormal ==
    (RouteDone /\ NormalFailed /\ tasks # <<>>)
        ~> (\A t \in 1..Len(tasks) : tasks[t].state = "done")

\* normal_ timed out after two tasks were dispatched, and both tasks ended
C12_Witness ==
    /\ RouteDone
    /\ normalReply = None
    /\ returned = Some("timeout")
    /\ Len(tasks) = 2
    /\ \A t \in 1..Len(tasks) : tasks[t].state = "done"
    /\ \E t \in 1..Len(tasks) : tasks[t].reply = Some("ok")


\* C13 (as stated): no step of route or traverse dereferences a null shadow
\* handle: traverse never applies the traverser to a null reference and
\* never faults, and no task is dispatched to a null handle.
C13_NoNullDereference ==
    /\ pc # "crashed"
    /\ \A v \in Range(visited) :
           \A i \in 1..NumShadows : v.dest # NullRef(i)
    /\ \A t \in 1..Len(tasks) : shadowData_[tasks[t].entry].first # NullHandle


\* the entries the invocation found eligible and whose handle is not null
Shadowed ==
    {i \in 1..NumShadows :
        /\ shadowData_[i].first # NullHandle
        /\ \E d \in Range(decisions) : d.entry = i /\ d.result}

\* C14: when route has returned, makeAdjustedNormalRequest was called once
\* if some entry was eligible with a non-null handle and never otherwise,
\* always on the original request; its result is what normal_ was routed and
\* what every makeShadowRequest call and so every dispatched task was given.
C14_AdjustedOnceAndShared ==
    RouteDone =>
        /\ Cardinality(PolicyCallsOf("makeAdjustedNormalRequest"))
               = IF Shadowed # {} THEN 1 ELSE 0
        /\ (Shadowed = {}) <=> (adjustedNormalReq = None)
        /\ Shadowed # {} =>
              /\ adjustedNormalReq = Some(MakeAdjustedNormalRequest(req))
              /\ normalCalls = <<adjustedNormalReq[1]>>
              /\ \A c \in PolicyCallsOf("makeAdjustedNormalRequest") :
                     policyCalls[c].req = Some(req)
              /\ \A c \in PolicyCallsOf("makeShadowRequest") :
                     policyCalls[c].req = adjustedNormalReq
              /\ \A t \in 1..Len(tasks) :
                     tasks[t].req = MakeShadowRequest(adjustedNormalReq[1])

\* route returned after two entries were shadowed with one adjustment
C14_Witness ==
    /\ RouteDone
    /\ Cardinality(Shadowed) = 2
    /\ Len(tasks) = 2
    /\ Cardinality(PolicyCallsOf("makeAdjustedNormalRequest")) = 1
    /\ Cardinality(PolicyCallsOf("makeShadowRequest")) = 2
    /\ normalCalls = <<MakeAdjustedNormalRequest(req)>>


\* the visits of the traverser to normal_ and to the shadow route handles
NormalVisits == {v \in Range(visited) : v.dest = NormalDest}
ShadowVisits == {v \in Range(visited) : v.dest # NormalDest}

\* C15 (as stated): the traverser never sees the shadow request class on
\* normal_, sees it on every shadow, and when traverse has returned the
\* request classes of the fiber are those of the caller.
C15_Original ==
    /\ \A v \in NormalVisits : ~v.shadow
    /\ \A v \in ShadowVisits : v.shadow
    /\ pc = "traverseDone" => requestClass = callerClass

\* C15 (amended): the traverser sees on normal_ the request classes of the
\* caller, so the shadow class only if the caller already carries it; it
\* sees the shadow class on every shadow; and when traverse has returned the
\* request classes of the fiber are those of the caller.
C15_TagScopedToShadows ==
    /\ \A v \in NormalVisits : v.shadow <=> (kShadow \in callerClass)
    /\ \A v \in ShadowVisits : v.shadow
    /\ pc = "traverseDone" => requestClass = callerClass

\* traverse returned to a caller without the shadow class after it visited
\* normal_ and two shadows
C15_Witness ==
    /\ pc = "traverseDone"
    /\ callerClass = {kFailover}
    /\ requestClass = {kFailover}
    /\ Len(visited) = 3
    /\ Cardinality(ShadowVisits) = 2
    /\ \A v \in ShadowVisits : v.shadow


\* what shouldShadow returns for the request on one settings instance
ShouldShadowOn(s) == ShouldShadowRead(req, s.keysToShadow, s.keyRange)

\* the decisions during which the settings instance of the entry was replaced
Overtaken == {d \in Range(decisions) : d.settings /\ d.before # d.after}

TaskSteps == {<<"spawned", "waiting">>, <<"waiting", "done">>}

\* C17: a step that dispatches a task gives it a postShadowReplyFn exactly
\* if normalReply is set at that step (so never under a policy that does not
\* delay), made from that reply; a task keeps what it was given, calls its
\* shadow route once, and the function has observed nothing before the
\* shadow route replied and exactly that reply afterwards.
C17_ObserverIffReplyKnown ==
    [][ /\ Len(tasks') >= Len(tasks)
        /\ \A t \in 1..Len(tasks') :
              IF t > Len(tasks)
              THEN /\ tasks'[t].state = "spawned"
                   /\ tasks'[t].observed = <<>>
                   /\ tasks'[t].postShadowReplyFn =
                         IF normalReply # None
                         THEN Some(MakePostShadowReplyFn(normalReply[1]))
                         ELSE None
                   /\ ~shadowPolicy_.delay =>
                         tasks'[t].postShadowReplyFn = None
              ELSE /\ tasks'[t].postShadowReplyFn = tasks[t].postShadowReplyFn
                   /\ \/ tasks'[t].state = tasks[t].state
                      \/ <<tasks[t].state, tasks'[t].state>> \in TaskSteps
                   /\ tasks'[t].state # "done" =>
                         tasks'[t].observed = <<>> /\ tasks'[t].reply = None
                   /\ tasks'[t].state = "done" =>
                         /\ tasks'[t].reply # None
                         /\ tasks'[t].observed =
                               IF tasks[t].postShadowReplyFn # None
                               THEN <<tasks'[t].reply[1]>> ELSE <<>>
      ]_vars

\* under a delaying policy normal_ replied "ok", two tasks were dispatched
\* with a function made from it, and the first got the error of its shadow
C17_Witness ==
    /\ shadowPolicy_.delay
    /\ normalReply = Some("ok")
    /\ Len(tasks) = 2
    /\ \A t \in 1..2 :
           tasks[t].postShadowReplyFn = Some(MakePostShadowReplyFn("ok"))
    /\ tasks[1].state = "done"
    /\ tasks[1].reply = Some("error")
    /\ tasks[1].observed = <<"error">>
    /\ tasks[2].state = "waiting"
    /\ tasks[2].observed = <<>>


\* the entries that have settings selecting the request and a route handle
Dispatchable ==
    {i \in 1..NumShadows :
        /\ shadowData_[i].second # "nullptr"
        /\ ShouldShadowOn(settingsStore[i])
        /\ shadowData_[i].first # NullHandle}

\* C18: when route has returned, the tasks it dispatched are one for each
\* entry that has settings, is eligible and has a non-null handle, none for
\* any other entry, and they were dispatched in the order of shadowData_.
C18_DispatchedExactlyEligible ==
    RouteDone =>
        /\ \A i \in 1..NumShadows :
               Cardinality(TasksOf(i)) = IF i \in Dispatchable THEN 1 ELSE 0
        /\ Len(tasks) = Cardinality(Dispatchable)
        /\ \A t, u \in 1..Len(tasks) :
               t < u => tasks[t].entry < tasks[u].entry

\* route returned after it dispatched to both entries, in order
C18_Witness ==
    /\ RouteDone
    /\ Dispatchable = {1, 2}
    /\ Len(tasks) = 2
    /\ tasks[1].entry = 1
    /\ tasks[2].entry = 2

\* C19: when route has returned, normal_ was routed to once and replied
\* once, and route returned that reply as it was, whether it is a success, an
\* error or a timeout and whether it came before or after the dispatches.
C19_NormalOutcomeReturnedAsIs ==
    RouteDone =>
        /\ Len(normalCalls) = 1
        /\ Len(normalReplied) = 1
        /\ returned = Some(normalReplied[1])
        /\ normalReply # None => returned = normalReply

\* normal_ failed before two shadows were dispatched; route returned the error
C19_Witness ==
    /\ RouteDone
    /\ shadowPolicy_.delay
    /\ normalReply = Some("error")
    /\ returned = Some("error")
    /\ normalReplied = <<"error">>
    /\ Len(tasks) = 2
    /\ \E t \in 1..Len(tasks) : tasks[t].reply = Some("ok")

====
